---- MODULE Spec2Model ----
(***************************************************************************)
(* Model of node-hl7-client's builder/modules/rootBase.ts:                 *)
(*   - RootBase: the delimiter codec (escape / unescape) and the segment   *)
(*     splitter (split / _getSegIndexes);                                  *)
(*   - HL7Outbound: the outbound channel (sendMessage and the socket       *)
(*     listeners it installs, _close, the socket pool).                    *)
(* Text is a sequence of one-character strings.  String indexes are the    *)
(* 0-based indexes of JavaScript.                                          *)
(* Spec is the channel driven by the application, its sockets and its      *)
(* timers (sockets made by net.connect); SpecCodec, SpecSplit and SpecPool *)
(* apply escape/unescape, split and _manageConnections to bounded inputs.  *)
(***************************************************************************)
EXTENDS Integers, Sequences, FiniteSets, TLC

VARIABLES
  \* ---- HL7Outbound fields (rootBase.ts 221-256) ----
  readyState,        \* _readyState
  awaitingResponse,  \* _awaitingResponse
  connectionTimer,   \* _connectionTimer: handle of a timer, 0 = undefined
  retryCount,        \* _retryCount
  retryTimer,        \* _retryTimer: handle of a timer, 0 = undefined
  socket,            \* _socket: id of a socket, 0 = undefined
  sockets,           \* _sockets: the Map, as its entries in insertion order
  pendingSetup,      \* _pendingSetup
  responseBuffer,    \* _responseBuffer
  stats,             \* stats: [acknowledged, sent]
  opt,               \* _opt and the handler: the channel's configuration
  \* ---- the environment of the channel ----
  sock,              \* the sockets created so far, by id
  nSock,             \* number of sendMessage calls made (= sockets created)
  timers,            \* the timers armed by setTimeout and not yet fired or cleared
  cbPending,         \* write callbacks not yet run
  inHandler,         \* data listeners suspended at `await this._handler(response)`
  written,           \* what socket.write was called with, in order
  extracted,         \* payloads of the complete frames the data listener extracted
  emitted,           \* the events the channel emitted
  lastChunk,         \* the chunk of the latest 'data' event
  nData, nTimeouts, nCloses,   \* counters of environment inputs (bounded)
  \* ---- argument and result of a RootBase call ----
  arg, ret

vars == <<readyState, awaitingResponse, connectionTimer, retryCount, retryTimer,
          socket, sockets, pendingSetup, responseBuffer, stats, opt,
          sock, nSock, timers, cbPending, inHandler, written, extracted, emitted,
          lastChunk, nData, nTimeouts, nCloses, arg, ret>>

chanVars == <<readyState, awaitingResponse, connectionTimer, retryCount, retryTimer,
              socket, sockets, pendingSetup, responseBuffer, stats, opt,
              sock, nSock, timers, cbPending, inHandler, written, extracted, emitted,
              lastChunk, nData, nTimeouts, nCloses>>

(***************************************************************************)
(* Bounds of the model.                                                    *)
(***************************************************************************)
MaxSends == 2
MaxData == 2
MaxTimeouts == 2
MaxCloses == 1

Min(a, b) == IF a < b THEN a ELSE b
Max(a, b) == IF a > b THEN a ELSE b

(***************************************************************************)
(* JavaScript string operations on sequences of characters.                *)
(***************************************************************************)
\* s[i] of JavaScript, i 0-based
At(s, i) == s[i + 1]

\* String.prototype.slice(a, b) for 0 <= a
Slice(s, a, b) ==
  LET lo == Min(a, Len(s))
      hi == Min(b, Len(s))
  IN  IF lo >= hi THEN <<>> ELSE SubSeq(s, lo + 1, hi)

\* String.prototype.substring(a, b): negative arguments count as 0, arguments
\* beyond the length as the length, and the two are swapped when a > b
Substring(s, a, b) ==
  LET ca == Min(Max(a, 0), Len(s))
      cb == Min(Max(b, 0), Len(s))
  IN  Slice(s, Min(ca, cb), Max(ca, cb))

\* whether p occurs in s at 0-based index i
OccursAt(s, p, i) ==
  /\ i >= 0
  /\ i + Len(p) <= Len(s)
  /\ \A k \in 1..Len(p) : s[i + k] = p[k]

\* String.prototype.indexOf(p): the first index, or -1
IndexOf(s, p) ==
  IF \E i \in 0..Len(s) : OccursAt(s, p, i)
    THEN CHOOSE i \in 0..Len(s) :
           OccursAt(s, p, i) /\ \A j \in 0..(i - 1) : ~OccursAt(s, p, j)
    ELSE -1

\* String.prototype.includes(p)
Includes(s, p) == IndexOf(s, p) # -1

\* String.prototype.replace(p, '') with a string pattern: the first occurrence only
RemoveFirst(s, p) ==
  LET i == IndexOf(s, p)
  IN  IF i = -1 THEN s ELSE Slice(s, 0, i) \o Slice(s, i + Len(p), Len(s))
(***************************************************************************)
(* RootBase: the delimiter codec.                                          *)
(***************************************************************************)
\* utils/enum.js: the index of each delimiter in the delimiter string, which the
\* constructor builds as newLine, field, component, repetition, escape,
\* subcomponent
Delimiters == [Segment |-> 0, Field |-> 1, Component |-> 2, Repetition |-> 3,
               Escape |-> 4, SubComponent |-> 5]

\* RootBase._defaultDelimiters: '\r|^~\\&'
DefaultDelimiters == <<"CR", "|", "^", "~", "\\", "&">>

\* _makeMatchEscape(delimiters): whether the one-character text c matches the
\* alternation of the escape, field, repetition, component and subcomponent
\* characters
MatchEscape(d, c) ==
  c \in {At(d, Delimiters.Escape), At(d, Delimiters.Field),
         At(d, Delimiters.Repetition), At(d, Delimiters.Component),
         At(d, Delimiters.SubComponent)}

\* the switch of escape (93-109): the letter for a match, '' when none matches
EscapeLetter(d, match) ==
  IF match = At(d, Delimiters.Escape) THEN <<"E">>
  ELSE IF match = At(d, Delimiters.Field) THEN <<"F">>
  ELSE IF match = At(d, Delimiters.Repetition) THEN <<"R">>
  ELSE IF match = At(d, Delimiters.Component) THEN <<"S">>
  ELSE IF match = At(d, Delimiters.SubComponent) THEN <<"T">>
  ELSE <<>>

RECURSIVE Escape(_, _)
\* escape(text) (85-118): text.replace(this._matchEscape, ...), every match
Escape(d, text) ==
  IF text = <<>> THEN <<>>
  ELSE LET c == Head(text)
           esc == At(d, Delimiters.Escape)
       IN  (IF MatchEscape(d, c)
              THEN <<esc>> \o EscapeLetter(d, c) \o <<esc>>
              ELSE <<c>>)
           \o Escape(d, Tail(text))

\* utils/utils.js decodeHexString: each pair of hexadecimal digits is the code
\* of one character
HexDigit(c) ==
  CASE c = "0" -> 0 [] c = "1" -> 1 [] c = "2" -> 2 [] c = "3" -> 3
    [] c = "4" -> 4 [] c = "5" -> 5 [] c = "6" -> 6 [] c = "7" -> 7
    [] c = "8" -> 8 [] c = "9" -> 9 [] c = "A" -> 10 [] c = "B" -> 11
    [] c = "C" -> 12 [] c = "D" -> 13 [] c = "E" -> 14 [] c = "F" -> 15
    [] OTHER -> 0

FromCharCode(n) ==
  CASE n = 13 -> "CR" [] n = 10 -> "LF" [] n = 65 -> "A" [] n = 69 -> "E"
    [] n = 70 -> "F" [] n = 88 -> "X" [] n = 124 -> "|" [] n = 94 -> "^"
    [] n = 126 -> "~" [] n = 92 -> "\\" [] n = 38 -> "&"
    [] OTHER -> "?"

RECURSIVE DecodeHexString(_)
DecodeHexString(h) ==
  IF Len(h) < 2 THEN <<>>
  ELSE <<FromCharCode(16 * HexDigit(h[1]) + HexDigit(h[2]))>>
       \o DecodeHexString(Slice(h, 2, Len(h)))

\* the switch of unescape with the letters of repetition and component exchanged
UnescapeSwappedRS(d, match) ==
  LET code == Slice(match, 1, 2)
  IN  CASE code = <<"E">> -> <<At(d, Delimiters.Escape)>>
        [] code = <<"F">> -> <<At(d, Delimiters.Field)>>
        [] code = <<"R">> -> <<At(d, Delimiters.Component)>>
        [] code = <<"S">> -> <<At(d, Delimiters.Repetition)>>
        [] code = <<"T">> -> <<At(d, Delimiters.SubComponent)>>
        [] code = <<"X">> -> DecodeHexString(Slice(match, 2, Len(match) - 1))
        [] code \in {<<"C">>, <<"H">>, <<"M">>, <<"N">>, <<"Z">>} -> <<>>
        [] OTHER -> match

\* the switch of unescape (151-174) on match.slice(1, 2)
UnescapeMatch(d, match) ==
  LET code == Slice(match, 1, 2)
  IN  CASE code = <<"E">> -> <<At(d, Delimiters.Escape)>>
        [] code = <<"F">> -> <<At(d, Delimiters.Field)>>
        [] code = <<"R">> -> <<At(d, Delimiters.Repetition)>>
        [] code = <<"S">> -> <<At(d, Delimiters.Component)>>
        [] code = <<"T">> -> <<At(d, Delimiters.SubComponent)>>
        [] code = <<"X">> -> DecodeHexString(Slice(match, 2, Len(match) - 1))
        [] code \in {<<"C">>, <<"H">>, <<"M">>, <<"N">>, <<"Z">>} -> <<>>
        [] OTHER -> match

\* the first index >= from at which character c stands in s, or -1
IndexOfFrom(s, c, from) ==
  IF \E i \in from..(Len(s) - 1) : At(s, i) = c
    THEN CHOOSE i \in from..(Len(s) - 1) :
           At(s, i) = c /\ \A j \in from..(i - 1) : At(s, j) # c
    ELSE -1

RECURSIVE ReplaceUnescape(_, _, _)
\* text.replace(this._matchUnescape, ...) from index `from` on: the matcher of
\* _makeMatchUnescape is the escape character, any characters that are not the
\* escape character, the escape character; every match, left to right
ReplaceUnescape(d, text, from) ==
  LET esc == At(d, Delimiters.Escape)
      p == IndexOfFrom(text, esc, from)
      q == IF p = -1 THEN -1 ELSE IndexOfFrom(text, esc, p + 1)
  IN  IF q = -1 THEN Slice(text, from, Len(text))
      ELSE Slice(text, from, p)
           \o UnescapeMatch(d, Slice(text, p, q + 1))
           \o ReplaceUnescape(d, text, q + 1)

\* unescape(text) (140-176)
Unescape(d, text) ==
  IF ~Includes(text, <<At(d, Delimiters.Escape)>>) THEN text
  ELSE ReplaceUnescape(d, text, 0)

(***************************************************************************)
(* RootBase: the segment splitter.                                         *)
(***************************************************************************)
Digits == <<"0", "1", "2", "3", "4", "5", "6", "7", "8", "9">>

RECURSIVE IndexToString(_)
\* Number.prototype.toString() of an index: its decimal digits
IndexToString(n) ==
  IF n < 10 THEN <<Digits[n + 1]>>
  ELSE Append(IndexToString(n \div 10), Digits[(n % 10) + 1])

DigitValue(c) == (CHOOSE k \in 1..10 : Digits[k] = c) - 1

RECURSIVE ParseInt(_)
\* parseInt of a string of decimal digits
ParseInt(str) ==
  IF Len(str) = 1 THEN DigitValue(str[1])
  ELSE 10 * ParseInt(SubSeq(str, 1, Len(str) - 1)) + DigitValue(str[Len(str)])

\* the match of /(\n|\r|)(name)\|/ that starts at index p: the text matched,
\* <<>> when there is none; the alternatives are tried in their order
MatchAt(data, name, p) ==
  IF OccursAt(data, <<"LF">> \o name \o <<"|">>, p) THEN <<"LF">> \o name \o <<"|">>
  ELSE IF OccursAt(data, <<"CR">> \o name \o <<"|">>, p) THEN <<"CR">> \o name \o <<"|">>
  ELSE IF OccursAt(data, name \o <<"|">>, p) THEN name \o <<"|">>
  ELSE <<>>

\* the correction of m.index (185-191) with the terminator left in the segment
AdjustIndexNone(s, index) == index

\* the correction of m.index for the terminator the match begins with (185-191)
AdjustIndex(s, index) ==
  IF Includes(s, <<"CR", "LF">>) THEN index + 2
  ELSE IF Includes(s, <<"LF">>) THEN index + 1
  ELSE IF Includes(s, <<"CR">>) THEN index + 1
  ELSE index

RECURSIVE ExecAll(_, _, _, _)
\* the loop `while ((m = regex.exec(data)) != null)` (183-195) of one name, the
\* search resuming at lastIndex
ExecAll(data, name, lastIndex, list) ==
  IF \E p \in lastIndex..Len(data) : MatchAt(data, name, p) # <<>>
    THEN LET p == CHOOSE q \in lastIndex..Len(data) :
                    /\ MatchAt(data, name, q) # <<>>
                    /\ \A r \in lastIndex..(q - 1) : MatchAt(data, name, r) = <<>>
             m0 == MatchAt(data, name, p)
         IN  ExecAll(data, name, p + Len(m0),
                     Append(list, IndexToString(AdjustIndex(m0, p))))
    ELSE list

RECURSIVE GetSegIndexes(_, _, _)
\* _getSegIndexes(names, data, list) (179-198)
GetSegIndexes(names, data, list) ==
  IF names = <<>> THEN list
  ELSE GetSegIndexes(Tail(names), data, ExecAll(data, Head(names), 0, list))

RECURSIVE InsertSorted(_, _)
InsertSorted(sorted, x) ==
  IF sorted = <<>> THEN <<x>>
  ELSE IF ParseInt(x) - ParseInt(Head(sorted)) < 0
         THEN <<x>> \o sorted
         ELSE <<Head(sorted)>> \o InsertSorted(Tail(sorted), x)

RECURSIVE SortIndexes(_)
\* getSegIndex.sort((a, b) => parseInt(a) - parseInt(b)): ascending, stable
SortIndexes(list) ==
  IF list = <<>> THEN <<>>
  ELSE InsertSorted(SortIndexes(SubSeq(list, 1, Len(list) - 1)), list[Len(list)])

\* the control segment names split looks for (122)
SegmentNames ==
  << <<"F", "H", "S">>, <<"B", "H", "S">>, <<"M", "S", "H">>,
     <<"B", "T", "S">>, <<"F", "T", "S">> >>

\* split(data) (121-133), segments = []
Split(data) ==
  LET getSegIndex == SortIndexes(GetSegIndexes(SegmentNames, data, <<>>))
  IN  [i \in 1..Len(getSegIndex) |->
         LET start == ParseInt(getSegIndex[i])
             end == IF i = Len(getSegIndex) THEN Len(data)
                                            ELSE ParseInt(getSegIndex[i + 1])
         IN  Slice(data, start, end)]

(***************************************************************************)
(* HL7Outbound: constants and configuration.                               *)
(***************************************************************************)
\* utils/constants.js: the MLLP start block (0x0B) and end block + CR (0x1C 0x0D)
PROTOCOL_MLLP_HEADER == <<"VT">>
PROTOCOL_MLLP_FOOTER == <<"FS", "CR">>

\* this._nodeId: the one key under which the channel stores its sockets
nodeId == 1

\* a channel constructed with the flag set
initialConnectionSet == TRUE

\* this._initialConnection: readonly, set once by the constructor
initialConnection == FALSE

\* the maxAttempts option of the channel (or of the parent client)
maxAttempts == 3

\* the payloads a caller sends: the k-th call of the application sends message k
\* (a replay by the retry timer sends the message of the call it replays)
Messages == 1..MaxSends

SockIds == 1..MaxSends

NoSocket == [st |-> "none", msg |-> 0, lastUsed |-> 0, callState |-> "",
             promise |-> "", failed |-> FALSE]

\* the chunks a peer may deliver: a whole frame, and the two halves of a frame
\* split across two chunks
WholeFrame == <<"VT", "A", "FS", "CR">>
FirstHalf == <<"VT", "A">>
SecondHalf == <<"B", "FS", "CR">>
Chunks == {WholeFrame, FirstHalf, SecondHalf}

NoEvents == [ready |-> 0, timeout |-> 0, error |-> 0, close |-> 0,
             acknowledged |-> <<>>, sent |-> <<>>]

\* this.emit(name, n): the events emitted are kept as a count per event name
\* and, for the two events that carry a count, the sequence of counts carried
Emit(em, name, n) ==
  CASE name = "ready" -> [em EXCEPT !.ready = @ + 1]
    [] name = "timeout" -> [em EXCEPT !.timeout = @ + 1]
    [] name = "error" -> [em EXCEPT !.error = @ + 1]
    [] name = "client.close" -> [em EXCEPT !.close = @ + 1]
    [] name = "client.acknowledged" -> [em EXCEPT !.acknowledged = Append(@, n)]
    [] name = "client.sent" -> [em EXCEPT !.sent = Append(@, n)]

(***************************************************************************)
(* The socket pool.                                                        *)
(***************************************************************************)
\* Map.get(id): the socket stored under id, 0 when there is none
PoolGet(pool, id) ==
  IF \E k \in 1..Len(pool) : pool[k].nodeID = id
    THEN (CHOOSE e \in {pool[k] : k \in 1..Len(pool)} : e.nodeID = id).socket
    ELSE 0

\* a Map.set that adds an entry whatever the key
PoolSetAppend(pool, id, s) == Append(pool, [nodeID |-> id, socket |-> s])

\* Map.set(id, s): an existing key keeps its place, a new key goes last
PoolSet(pool, id, s) ==
  IF \E k \in 1..Len(pool) : pool[k].nodeID = id
    THEN [k \in 1..Len(pool) |->
            IF pool[k].nodeID = id THEN [nodeID |-> id, socket |-> s] ELSE pool[k]]
    ELSE Append(pool, [nodeID |-> id, socket |-> s])

\* Map.delete(id)
PoolDelete(pool, id) == SelectSeq(pool, LAMBDA e : e.nodeID # id)

\* socket.destroy(): a live socket is destroyed; a destroyed one stays as it is
Destroy(sk, s) ==
  IF s # 0 /\ sk[s].st \in {"connecting", "open"}
    THEN [sk EXCEPT ![s].st = "destroyed"]
    ELSE sk

\* socket.destroy(err): as destroy(), and the socket emits 'error' afterwards
DestroyWithError(sk, s) ==
  IF s # 0 /\ sk[s].st \in {"connecting", "open"}
    THEN [sk EXCEPT ![s].st = "erroring"]
    ELSE sk

\* _addSocket(nodeId, socket, b): every socket object has a `destroyed` property
AddSocket(pool, id, s, b) ==
  IF ~b /\ PoolGet(pool, id) # 0 THEN pool ELSE PoolSet(pool, id, s)

\* _removeSocket(nodeId): [sockets, sock] afterwards
RemoveSocket(pool, sk, id) ==
  [sockets |-> PoolDelete(pool, id), sock |-> Destroy(sk, PoolGet(pool, id))]

\* the sort with the comparison reversed: descending
SortByLastUsedDescending(pool, sk) ==
  LET before(j, k) ==
        \/ sk[pool[j].socket].lastUsed > sk[pool[k].socket].lastUsed
        \/ /\ sk[pool[j].socket].lastUsed = sk[pool[k].socket].lastUsed
           /\ j < k
      rank(k) == Cardinality({j \in 1..Len(pool) : before(j, k)}) + 1
  IN  [r \in 1..Len(pool) |-> pool[CHOOSE k \in 1..Len(pool) : rank(k) = r]]

\* list.sort((a, b) => a.lastUsed - b.lastUsed): ascending, stable
SortByLastUsed(pool, sk) ==
  LET before(j, k) ==
        \/ sk[pool[j].socket].lastUsed < sk[pool[k].socket].lastUsed
        \/ /\ sk[pool[j].socket].lastUsed = sk[pool[k].socket].lastUsed
           /\ j < k
      rank(k) == Cardinality({j \in 1..Len(pool) : before(j, k)}) + 1
  IN  [r \in 1..Len(pool) |-> pool[CHOOSE k \in 1..Len(pool) : rank(k) = r]]

RECURSIVE RemoveAll(_, _, _)
\* removable.forEach(({ nodeID }) => this._removeSocket(nodeID))
RemoveAll(removable, pool, sk) ==
  IF removable = <<>> THEN [sockets |-> pool, sock |-> sk]
  ELSE LET r == RemoveSocket(pool, sk, Head(removable).nodeID)
       IN  RemoveAll(Tail(removable), r.sockets, r.sock)

\* _manageConnections(): [sockets, sock] afterwards
ManageConnections(pool, sk, maxConnections) ==
  LET count == Len(pool) - maxConnections
  IN  IF count <= 0 THEN [sockets |-> pool, sock |-> sk]
      ELSE LET list == SortByLastUsed(pool, sk)
               n == Min(count, Len(list) - 1)
               removable == Slice(list, 0, n)
           IN  RemoveAll(removable, pool, sk)

\* a forEach that destroys no socket
DestroyNone(pool, sk) == sk

RECURSIVE DestroyEach(_, _)
\* this._sockets.forEach(socket => { socket.end(); socket.destroy() })
DestroyEach(pool, sk) ==
  IF pool = <<>> THEN sk
  ELSE DestroyEach(Tail(pool), Destroy(sk, Head(pool).socket))

(***************************************************************************)
(* HL7Outbound: the channel.                                               *)
(***************************************************************************)
\* the configurations of a channel: the options read from _opt and whether a
\* handler was given
Configs == [waitAck : BOOLEAN, handler : BOOLEAN,
            connectionTimeout : {0, 1}, maxConnections : {1}]

\* the constructor (rootBase.ts 269-289), for a configuration among `configs`
Constructed(configs) ==
  /\ readyState = "CONNECTING"
  /\ awaitingResponse = FALSE
  /\ connectionTimer = 0
  /\ retryCount = 0
  /\ retryTimer = 0
  /\ socket = 0
  /\ sockets = <<>>
  /\ pendingSetup = TRUE
  /\ responseBuffer = <<>>
  /\ stats = [acknowledged |-> 0, sent |-> 0]
  /\ opt \in configs
  /\ sock = [i \in SockIds |-> NoSocket]
  /\ nSock = 0
  /\ timers = {}
  /\ cbPending = 0
  /\ inHandler = 0
  /\ written = <<>>
  /\ extracted = <<>>
  /\ emitted = NoEvents
  /\ lastChunk = <<>>
  /\ nData = 0
  /\ nTimeouts = 0
  /\ nCloses = 0

Init ==
  /\ Constructed(Configs)
  /\ arg = <<>>
  /\ ret = <<>>

\* _reset(): the timers left once the timer _connectionTimer names is cleared
ResetTimers(ts, handle) ==
  {t \in ts : ~(t.kind = "connection" /\ t.id = handle)}

\* the body of sendMessage (359-533) up to its return: open a socket whose
\* connect listener sends `m`, arm the connection timer, store the socket in the
\* pool and install the listeners.  The function holds no await, so the promise
\* it returns is fulfilled when it returns.  `ts` are the timers pending before.
DoSendMessage(m, ts) ==
  LET i == nSock + 1
  IN  /\ nSock' = i
      /\ sock' = [sock EXCEPT ![i] =
                    [st |-> "connecting", msg |-> m, lastUsed |-> 0,
                     callState |-> readyState, promise |-> "fulfilled",
                     failed |-> FALSE]]
      /\ socket' = i
      /\ IF opt.connectionTimeout > 0
           THEN /\ timers' = ts \cup {[kind |-> "connection", id |-> i, msg |-> m]}
                /\ connectionTimer' = i
           ELSE /\ timers' = ts
                /\ connectionTimer' = connectionTimer
      /\ sockets' = AddSocket(sockets, nodeId, i, TRUE)

\* the application calls sendMessage(m)
SendMessage(m) ==
  /\ nSock < MaxSends
  /\ m = nSock + 1
  /\ DoSendMessage(m, timers)
  /\ UNCHANGED <<readyState, awaitingResponse, retryCount, retryTimer, pendingSetup,
                 responseBuffer, stats, opt, cbPending, inHandler, written,
                 extracted, emitted, nData, nTimeouts, nCloses, lastChunk, arg, ret>>

\* checkSend (374-413): threw = TRUE when the loop ends by throwing (every
\* attempt reads the same state, so all maxAttempts attempts throw), else the
\* value awaited
CheckSend(rs, ps, aw) ==
  IF rs \in {"CLOSED", "CLOSING"} THEN [threw |-> TRUE, value |-> FALSE]
  ELSE IF ps # FALSE THEN [threw |-> FALSE, value |-> ps]
  ELSE IF rs # "CONNECTED" THEN [threw |-> FALSE, value |-> (rs = "CONNECTED")]
  ELSE IF opt.waitAck /\ aw THEN [threw |-> FALSE, value |-> aw]
  ELSE [threw |-> FALSE, value |-> ps]

\* the state _listener (577-590) leaves
ListenerState == "CONNECTED"

\* the state the connect handler of sendMessage sets first (361)
HandlerState == "CONNECTED"

\* socket i connects: net.connect's listener runs _listener and the handler of
\* sendMessage up to its first await; the socket then emits 'ready' (454-459);
\* the handler resumes after checkSend and writes (421-436)
SocketConnect(i) ==
  /\ sock[i].st = "connecting"
  /\ LET pool1 == AddSocket(sockets, nodeId, i, TRUE)
         managed == IF Len(pool1) > opt.maxConnections
                      THEN ManageConnections(pool1, sock, opt.maxConnections)
                      ELSE [sockets |-> pool1, sock |-> sock]
         sk1 == [managed.sock EXCEPT ![i].st =
                   IF managed.sock[i].st = "connecting" THEN "open" ELSE @]
         rs1 == ListenerState
         rs2 == HandlerState
         check == CheckSend(rs2, pendingSetup, awaitingResponse)
     IN  /\ sockets' = managed.sockets
         /\ sock' = sk1
         /\ readyState' = rs2
         /\ timers' = ResetTimers(timers, connectionTimer)
         /\ connectionTimer' = 0
         /\ emitted' = Emit(emitted, "ready", 0)
         /\ IF check.threw
              THEN UNCHANGED <<awaitingResponse, written, cbPending>>
              ELSE /\ awaitingResponse' = (IF opt.waitAck THEN TRUE ELSE awaitingResponse)
                   /\ written' = Append(written, [to |-> socket, msg |-> sock[i].msg,
                                                  call |-> i])
                   /\ cbPending' = cbPending + 1
  /\ UNCHANGED <<retryCount, retryTimer, socket, pendingSetup, responseBuffer, stats,
                 opt, nSock, inHandler, extracted, nData, nTimeouts, nCloses, lastChunk, arg, ret>>

\* the callback of socket.write (431-436)
WriteCallback ==
  /\ cbPending > 0
  /\ cbPending' = cbPending - 1
  /\ stats' = [stats EXCEPT !.sent = @ + 1]
  /\ emitted' = Emit(emitted, "client.sent", stats.sent + 1)
  /\ UNCHANGED <<readyState, awaitingResponse, connectionTimer, retryCount, retryTimer,
                 socket, sockets, pendingSetup, responseBuffer, opt, sock, nSock,
                 timers, inHandler, written, extracted, nData, nTimeouts, nCloses,
                 lastChunk, arg, ret>>

\* a close that destroys the pooled sockets and leaves them in the pool
CloseResultKeepsPool(sk, pool, em) ==
  [readyState |-> "CLOSING",
   sock |-> sk,
   sockets |-> pool,
   emitted |-> Emit(em, "client.close", 0)]

\* _close() (301-315): an async function with no await, so it runs to its end
\* when called.  [readyState, sock, sockets, emitted] afterwards
CloseResult(sk, pool, em) ==
  [readyState |-> "CLOSING",
   sock |-> DestroyEach(pool, sk),
   sockets |-> <<>>,
   emitted |-> Emit(em, "client.close", 0)]

\* whether the data listener counts a frame it extracted (478)
CountsFrame(handler) == handler

RECURSIVE DataLoop(_)
\* the while loop of the data listener (465-489), from its test, until the
\* buffer is empty (suspended = FALSE) or the listener is suspended at
\* `await this._handler(response)` (suspended = TRUE)
DataLoop(d) ==
  IF d.buf = <<>> THEN [d EXCEPT !.suspended = FALSE]
  ELSE
    LET indexOfVT == IndexOf(d.buf, PROTOCOL_MLLP_HEADER)
        indexOfFSCR == IndexOf(d.buf, PROTOCOL_MLLP_FOOTER)
        loaded0 == Substring(d.buf, indexOfVT, indexOfFSCR + 2)
        rest == Slice(d.buf, indexOfFSCR + 2, Len(d.buf))
        loaded1 == RemoveFirst(loaded0, PROTOCOL_MLLP_HEADER)
    IN  IF Includes(loaded1, PROTOCOL_MLLP_FOOTER)
          THEN LET loaded2 == RemoveFirst(loaded1, PROTOCOL_MLLP_FOOTER)
               IN  IF CountsFrame(opt.handler)
                     THEN [buf |-> rest,
                           acknowledged |-> d.acknowledged + 1,
                           extracted |-> Append(d.extracted, loaded2),
                           emitted |-> Emit(d.emitted, "client.acknowledged", d.acknowledged + 1),
                           suspended |-> TRUE]
                     ELSE DataLoop([d EXCEPT !.buf = rest,
                                             !.extracted = Append(@, loaded2)])
          ELSE DataLoop([d EXCEPT !.buf = rest])

\* the data listener from the loop's test on: run the loop; when it ends, close
RunDataListener(buf) ==
  LET d == DataLoop([buf |-> buf, acknowledged |-> stats.acknowledged,
                     extracted |-> extracted, emitted |-> emitted,
                     suspended |-> FALSE])
      c == CloseResult(sock, sockets, d.emitted)
  IN  /\ responseBuffer' = d.buf
      /\ stats' = [stats EXCEPT !.acknowledged = d.acknowledged]
      /\ extracted' = d.extracted
      /\ IF d.suspended
           THEN /\ inHandler' = inHandler + 1
                /\ emitted' = d.emitted
                /\ UNCHANGED <<readyState, sock, sockets>>
           ELSE /\ inHandler' = inHandler
                /\ emitted' = c.emitted
                /\ readyState' = c.readyState
                /\ sock' = c.sock
                /\ sockets' = c.sockets

\* socket i emits 'data' with `chunk` (461-493)
SocketData(i, chunk) ==
  /\ sock[i].st = "open"
  /\ nData < MaxData
  /\ nData' = nData + 1
  /\ lastChunk' = chunk
  /\ awaitingResponse' = FALSE
  /\ RunDataListener(responseBuffer \o chunk)
  /\ UNCHANGED <<connectionTimer, retryCount, retryTimer, socket, pendingSetup, opt,
                 nSock, timers, cbPending, written, nTimeouts, nCloses, arg, ret>>

\* the caller's handler returns: a suspended data listener resumes at the
\* loop's test (486 -> 465)
HandlerReturn ==
  /\ inHandler > 0
  /\ LET d == DataLoop([buf |-> responseBuffer, acknowledged |-> stats.acknowledged,
                        extracted |-> extracted, emitted |-> emitted,
                        suspended |-> FALSE])
         c == CloseResult(sock, sockets, d.emitted)
     IN  /\ responseBuffer' = d.buf
         /\ stats' = [stats EXCEPT !.acknowledged = d.acknowledged]
         /\ extracted' = d.extracted
         /\ IF d.suspended
              THEN /\ inHandler' = inHandler
                   /\ emitted' = d.emitted
                   /\ UNCHANGED <<readyState, sock, sockets>>
              ELSE /\ inHandler' = inHandler - 1
                   /\ emitted' = c.emitted
                   /\ readyState' = c.readyState
                   /\ sock' = c.sock
                   /\ sockets' = c.sockets
  /\ UNCHANGED <<awaitingResponse, connectionTimer, retryCount, retryTimer, socket,
                 pendingSetup, opt, nSock, timers, cbPending, written, nData,
                 nTimeouts, nCloses, lastChunk, arg, ret>>

\* socket i emits 'error' (495-502): of its own, or after destroy(err).  The
\* socket is destroyed by the error.  The application listens to the channel's
\* 'error' event (an 'error' emitted with no listener throws).
SocketError(i) ==
  /\ sock[i].st \in {"connecting", "open", "erroring"}
  /\ LET sk1 == [sock EXCEPT ![i].st = "destroyed", ![i].failed = TRUE]
         c == CloseResult(sk1, sockets, Emit(emitted, "error", 0))
     IN  /\ readyState' = c.readyState
         /\ sock' = c.sock
         /\ sockets' = c.sockets
         /\ emitted' = c.emitted
  /\ UNCHANGED <<awaitingResponse, connectionTimer, retryCount, retryTimer, socket,
                 pendingSetup, responseBuffer, stats, opt, nSock, timers, cbPending,
                 inHandler, written, extracted, nData, nTimeouts, nCloses, lastChunk, arg, ret>>

\* socket i emits 'timeout' (504-532); the socket's idle timeout is the
\* connectionTimeout option, and 0 disables it (554, 565)
SocketTimeout(i) ==
  /\ sock[i].st \in {"connecting", "open"}
  /\ opt.connectionTimeout > 0
  /\ nTimeouts < MaxTimeouts
  /\ nTimeouts' = nTimeouts + 1
  /\ LET maxConnectionAttempts == maxAttempts
         count == retryCount
     IN  IF /\ count < maxConnectionAttempts
            /\ readyState \in {"CONNECTING", "OPEN"}
            /\ initialConnection
           THEN /\ retryCount' = retryCount + 1
                /\ connectionTimer' = 0
                /\ readyState' = "OPEN"
                /\ emitted' = Emit(emitted, "timeout", 0)
                /\ timers' = ResetTimers(timers, connectionTimer)
                               \cup {[kind |-> "retry", id |-> i, msg |-> sock[i].msg]}
                /\ retryTimer' = i
                /\ UNCHANGED <<sock, sockets>>
           ELSE IF \/ count >= maxConnectionAttempts
                   \/ (readyState = "CONNECTING" /\ ~initialConnection)
                   \/ ~initialConnection
                  THEN LET c == CloseResult([sock EXCEPT ![i].failed = TRUE],
                                            sockets, emitted)
                       IN  /\ readyState' = c.readyState
                           /\ sock' = c.sock
                           /\ sockets' = c.sockets
                           /\ emitted' = Emit(c.emitted, "error", 0)
                           /\ UNCHANGED <<retryCount, connectionTimer, timers,
                                          retryTimer>>
                  ELSE UNCHANGED <<retryCount, connectionTimer, readyState, emitted,
                                   timers, retryTimer, sock, sockets>>
  /\ UNCHANGED <<awaitingResponse, socket, pendingSetup, responseBuffer, stats, opt,
                 nSock, cbPending, inHandler, written, extracted, nData, nCloses,
                 lastChunk, arg, ret>>

\* a timer fires.  The connection timer (440-447) ends and destroys the current
\* socket with an error and removes the pool's entry; the retry timer (523)
\* calls sendMessage with the same message.
TimerFires(t) ==
  /\ t \in timers
  /\ IF t.kind = "connection"
       THEN LET sk1 == DestroyWithError(sock, socket)
                r == RemoveSocket(sockets, sk1, nodeId)
            IN  /\ sock' = r.sock
                /\ sockets' = r.sockets
                /\ timers' = timers \ {t}
                /\ UNCHANGED <<nSock, socket, connectionTimer>>
       ELSE /\ nSock < MaxSends
            /\ DoSendMessage(t.msg, timers \ {t})
  /\ UNCHANGED <<readyState, awaitingResponse, retryCount, retryTimer, pendingSetup,
                 responseBuffer, stats, opt, cbPending, inHandler, written,
                 extracted, emitted, nData, nTimeouts, nCloses, lastChunk, arg, ret>>

\* the application closes the channel: _close() (301-315)
Close ==
  /\ nCloses < MaxCloses
  /\ nCloses' = nCloses + 1
  /\ LET c == CloseResult(sock, sockets, emitted)
     IN  /\ readyState' = c.readyState
         /\ sock' = c.sock
         /\ sockets' = c.sockets
         /\ emitted' = c.emitted
  /\ UNCHANGED <<awaitingResponse, connectionTimer, retryCount, retryTimer, socket,
                 pendingSetup, responseBuffer, stats, opt, nSock, timers, cbPending,
                 inHandler, written, extracted, nData, nTimeouts, lastChunk, arg, ret>>

Next ==
  \/ \E m \in Messages : SendMessage(m)
  \/ \E i \in SockIds : SocketConnect(i)
  \/ WriteCallback
  \/ \E i \in SockIds, chunk \in Chunks : SocketData(i, chunk)
  \/ HandlerReturn
  \/ \E i \in SockIds : SocketError(i)
  \/ \E i \in SockIds : SocketTimeout(i)
  \/ \E t \in timers : TimerFires(t)
  \/ Close

Spec == Init /\ [][Next]_vars

(***************************************************************************)
(* Claims about the channel.                                               *)
(***************************************************************************)

\* C1: once the channel's state has become CLOSING (or CLOSED), no step of the
\* channel makes it CONNECTED again.
C1_NoReconnectAfterClosing ==
  [][(readyState \in {"CLOSING", "CLOSED"}) => (readyState' # "CONNECTED")]_vars

\* C2: with waitAck enabled, while the awaiting-acknowledgment flag is set (a
\* message has been written and no inbound data has arrived since), no step
\* writes a further message.
C2_OneInFlight ==
  [][(opt.waitAck /\ awaitingResponse) => (written' = written)]_vars

\* C3: a sendMessage call made while the state is CLOSING or CLOSED writes
\* nothing: no write ever comes from such a call.
C3_NoWriteWhenClosing ==
  \A k \in 1..Len(written) :
    sock[written[k].call].callState \notin {"CLOSING", "CLOSED"}

\* C4: a socket timeout in CONNECTING or OPEN with retries remaining moves the
\* channel to OPEN, emits `timeout`, increments the retry count and schedules a
\* replay of the send (a retry timer).
C4_TimeoutRetries ==
  [][(/\ nTimeouts' = nTimeouts + 1
      /\ retryCount < maxAttempts
      /\ readyState \in {"CONNECTING", "OPEN"})
     => (/\ readyState' = "OPEN"
         /\ emitted'.timeout = emitted.timeout + 1
         /\ retryCount' = retryCount + 1
         /\ \E t \in timers' : t.kind = "retry")]_vars

\* C5: when the send of a sendMessage call has failed terminally (socket error,
\* or socket timeout with no retry), the promise of that call is rejected.
C5_FailureRejects ==
  \A i \in SockIds : sock[i].failed => sock[i].promise = "rejected"

\* C6: the acknowledged counter equals the number of complete frames extracted
\* from the receive buffer, with or without a handler, and the k-th
\* `client.acknowledged` event carries k.
C6_AckOncePerFrame ==
  /\ stats.acknowledged = Len(extracted)
  /\ emitted.acknowledged = [k \in 1..Len(extracted) |-> k]

\* C7: when a frame arrives split across two chunks, the first chunk stays in
\* the receive buffer as a partial tail, and after the second chunk exactly one
\* frame is extracted, whose payload is the framed payload.
C7_SplitFrameReassembled ==
  [][/\ (/\ nData' = nData + 1
         /\ lastChunk' = FirstHalf
         /\ responseBuffer = <<>>)
        => responseBuffer' = FirstHalf
     /\ (/\ nData' = nData + 1
         /\ lastChunk = FirstHalf
         /\ lastChunk' = SecondHalf
         /\ inHandler = 0)
        => extracted' = Append(extracted, <<"A", "B">>)]_vars

(***************************************************************************)
(* The channel under the scheduling of the event loop: a pending write     *)
(* callback runs, the caller's handler returns, an armed timer fires, and  *)
(* a socket destroyed with an error emits it.  What the application and    *)
(* the peer do is not forced.                                              *)
(***************************************************************************)
FairSpec ==
  /\ Spec
  /\ WF_vars(WriteCallback)
  /\ WF_vars(HandlerReturn)
  /\ WF_vars(\E t \in timers : TimerFires(t))
  /\ WF_vars(\E i \in SockIds : sock[i].st = "erroring" /\ SocketError(i))

\* C11: once a close has run (explicit close, socket error, terminal timeout
\* or response processed), the channel's state eventually is CLOSED and stays
\* CLOSED.
C11_CloseReachesClosed ==
  [](emitted.close > 0 => <>[](readyState = "CLOSED"))

\* C13: after a close has run, no connection-timeout timer and no retry timer
\* armed by the channel is pending.
C13_CloseStopsTimers ==
  [][(emitted'.close = emitted.close + 1) => (timers' = {})]_vars

(***************************************************************************)
(* The delimiter codec: escape, then unescape of its result, for every     *)
(* text up to MaxTextLen characters and each delimiter set.                *)
(***************************************************************************)
MaxTextLen == 3

\* delimiter sets of six distinct characters: the default; one whose escape
\* character is a letter that is no escape code and whose field separator is
\* the letter of a code; one whose escape character is the letter of a code
DelimiterSets ==
  { DefaultDelimiters,
    <<"CR", "E", "^", "~", "X", "&">>,
    <<"CR", "|", "^", "~", "F", "&">> }

Range(f) == {f[x] : x \in DOMAIN f}

\* the delimiters and some letters: escape codes and plain text
Alphabet(d) == Range(d) \cup {"E", "F", "A"}

Texts(d) == UNION {[1..n -> Alphabet(d)] : n \in 0..MaxTextLen}

\* the letters escape writes between two escape characters
EscapeCodes == {"E", "F", "R", "S", "T"}

InitCodec ==
  /\ Constructed({[waitAck |-> FALSE, handler |-> FALSE, connectionTimeout |-> 0,
                   maxConnections |-> 1]})
  /\ \E d \in DelimiterSets : arg \in [text : Texts(d), delimiters : {d}]
  /\ ret = [pc |-> "escape", escaped |-> <<>>, unescaped |-> <<>>]

CallEscape ==
  /\ ret.pc = "escape"
  /\ ret' = [ret EXCEPT !.pc = "unescape",
                        !.escaped = Escape(arg.delimiters, arg.text)]
  /\ UNCHANGED <<chanVars, arg>>

CallUnescape ==
  /\ ret.pc = "unescape"
  /\ ret' = [ret EXCEPT !.pc = "done",
                        !.unescaped = Unescape(arg.delimiters, ret.escaped)]
  /\ UNCHANGED <<chanVars, arg>>

NextCodec == CallEscape \/ CallUnescape

SpecCodec == InitCodec /\ [][NextCodec]_vars

\* C8 as stated: for every delimiter set of distinct characters and every text,
\* unescape(escape(s)) = s.
C8_RoundTrip ==
  ret.pc = "done" => ret.unescaped = arg.text

\* C8 as amended: the round trip holds for every delimiter set of distinct
\* characters whose escape character is none of the letters E, F, R, S, T.
C8_RoundTripAmended ==
  (ret.pc = "done" /\ At(arg.delimiters, Delimiters.Escape) \notin EscapeCodes)
    => ret.unescaped = arg.text

\* a round trip of a text of full length made of escaped delimiters only, the
\* escape character among them
C8_Witness ==
  /\ ret.pc = "done"
  /\ At(arg.delimiters, Delimiters.Escape) \notin EscapeCodes
  /\ Len(arg.text) = MaxTextLen
  /\ At(arg.delimiters, Delimiters.Escape) \in Range(arg.text)
  /\ At(arg.delimiters, Delimiters.Field) \in Range(arg.text)
  /\ Len(ret.escaped) = 3 * Len(arg.text)
  /\ ret.unescaped = arg.text

\* a socket that is neither destroyed nor being destroyed
Live(sk, i) == sk[i].st \in {"connecting", "open"}

\* C14: when a data listener has handled its event (the loop has emptied the
\* buffer, the handler has returned for each frame), the channel is closed:
\* every pooled socket is destroyed, the pool is empty, `client.close` has been
\* emitted and the state is CLOSING or CLOSED.
C14_DataThenClosed ==
  [][(\/ (nData' = nData + 1 /\ inHandler' = inHandler)
      \/ inHandler' = inHandler - 1)
     => (/\ responseBuffer' = <<>>
         /\ readyState' \in {"CLOSING", "CLOSED"}
         /\ sockets' = <<>>
         /\ emitted'.close = emitted.close + 1
         /\ \A k \in 1..Len(sockets) : ~Live(sock', sockets[k].socket))]_vars

\* a response frame was handed to the handler, the handler returned, and the
\* close that followed (the only close so far) destroyed the pooled socket
C14_Witness ==
  /\ nData > 0
  /\ stats.acknowledged > 0
  /\ inHandler = 0
  /\ nCloses = 0 /\ emitted.error = 0
  /\ emitted.close > 0
  /\ readyState = "CLOSING"
  /\ sockets = <<>>
  /\ \E i \in SockIds : sock[i].st = "destroyed"

\* C15: when a socket of the channel becomes ready, every connection-timeout
\* timer and retry timer armed before (by any sendMessage call of the channel)
\* has been cleared: none is pending.
C15_NoStaleTimer ==
  [][(emitted'.ready = emitted.ready + 1) => ~(\E t \in timers' : TRUE)]_vars

\* C16: with connectionTimeout > 0, when the connection timer of a socket
\* expires before that socket is ready, the socket is aborted and is no longer
\* in the pool, and no retry is scheduled; the error the aborted socket emits
\* leaves the channel CLOSING or CLOSED with `error` emitted; with
\* connectionTimeout = 0 no timer is ever armed.
C16_ConnectionTimeoutFatal ==
  [][/\ \A t \in timers :
         (TimerFires(t) /\ t.kind = "connection" /\ sock[t.id].st = "connecting")
           => (/\ ~Live(sock', t.id)
               /\ PoolGet(sockets', nodeId) # t.id
               /\ ~(\E u \in timers' : u.kind = "retry"))
     /\ \A i \in SockIds :
         (sock[i].st = "erroring" /\ SocketError(i))
           => (/\ emitted'.error = emitted.error + 1
               /\ readyState' \in {"CLOSING", "CLOSED"}
               /\ ~(\E u \in timers' : u.kind = "retry"))
     /\ (opt.connectionTimeout = 0 => timers' = {})]_vars

\* C17: a socket error event, in whatever state, leaves the channel CLOSING or
\* CLOSED with `error` emitted, every socket of the pool destroyed, the pool
\* empty and no retry scheduled.
C17_SocketErrorEndsChannel ==
  [][(\E i \in SockIds : SocketError(i))
     => (/\ readyState' \in {"CLOSING", "CLOSED"}
         /\ emitted'.error = emitted.error + 1
         /\ sockets' = <<>>
         /\ \A k \in 1..Len(sockets) : ~Live(sock', sockets[k].socket)
         /\ retryTimer' = retryTimer
         /\ ~(\E u \in timers' : u.kind = "retry"))]_vars

\* the first socket emitted an error while the second was the one in the pool:
\* the close of the error listener destroyed the second
C17_Witness ==
  /\ nSock = 2
  /\ nCloses = 0 /\ nTimeouts = 0 /\ nData = 0
  /\ emitted.error = 1
  /\ sock[1].failed /\ sock[1].st = "destroyed"
  /\ ~sock[2].failed /\ sock[2].st = "destroyed"
  /\ readyState = "CLOSING"
  /\ sockets = <<>>

\* C19: after every step the pool (empty at construction) holds at most one
\* entry, so never more than maxConnections (>= 1), and when a socket connects
\* the eviction leaves that socket, the current one, in the pool.
C19_PoolAtMostOne ==
  [][/\ Len(sockets') <= 1
     /\ (opt.maxConnections >= 1 => Len(sockets') <= opt.maxConnections)
     /\ \A i \in SockIds :
         SocketConnect(i) => (PoolGet(sockets', nodeId) = i /\ Live(sock', i))]_vars

\* two sendMessage calls were made, both sockets connected, and the pool holds
\* the one entry of the socket that connected last
C19_Witness ==
  /\ nSock = 2
  /\ emitted.ready = 2
  /\ Len(sockets) = 1
  /\ sock[1].st = "open" /\ sock[2].st = "open"

\* C20: once a close has run, every socket the channel has opened is destroyed.
C20_NoSocketLeak ==
  [][(emitted'.close = emitted.close + 1)
     => (\A i \in SockIds : ~Live(sock', i))]_vars

\* C22: over every sequence of socket timeout events the retry count never
\* exceeds maxAttempts, a replay is scheduled only together with an increment
\* of the retry count below maxAttempts (so at most maxAttempts replays), and
\* every timeout event either schedules a retry and leaves the state OPEN or
\* closes the channel and emits `error`: none leaves the channel unchanged.
C22_RetriesBounded ==
  [][/\ retryCount' <= maxAttempts
     /\ (\E t \in timers' \ timers : t.kind = "retry")
          => (retryCount < maxAttempts /\ retryCount' = retryCount + 1)
     /\ \A i \in SockIds :
          SocketTimeout(i)
            => \/ /\ readyState' = "OPEN"
                  /\ retryCount' = retryCount + 1
                  /\ \E t \in timers' \ timers : t.kind = "retry"
               \/ /\ readyState' \in {"CLOSING", "CLOSED"}
                  /\ sockets' = <<>>
                  /\ emitted'.close = emitted.close + 1
                  /\ emitted'.error = emitted.error + 1]_vars

\* two socket timeouts have been handled, one of them on a connected channel:
\* each closed the channel and emitted `error`, and no retry was scheduled
C22_Witness ==
  /\ nTimeouts = 2
  /\ emitted.ready > 0
  /\ emitted.error >= 2
  /\ emitted.close >= 2
  /\ retryCount = 0
  /\ readyState = "CLOSING"
  /\ ~(\E t \in timers : t.kind = "retry")

(***************************************************************************)
(* escape and unescape called with any JavaScript value a caller may pass  *)
(* for `text`: a string, null or undefined.  A value is [type, chars].     *)
(***************************************************************************)
JsNull == [type |-> "null", chars |-> <<>>]
JsUndefined == [type |-> "undefined", chars |-> <<>>]
JsString(str) == [type |-> "string", chars |-> str]

NoThrow == "none"

\* escape(text) as a call (85-118): `text === null` is true of null only; of
\* undefined, `text.replace` is a property read of undefined, a TypeError
EscapeCall(d, text) ==
  IF text.type = "null" THEN [threw |-> "HL7FatalError", value |-> <<>>]
  ELSE IF text.type = "undefined" THEN [threw |-> "TypeError", value |-> <<>>]
  ELSE [threw |-> NoThrow, value |-> Escape(d, text.chars)]

\* unescape(text) as a call (140-176): `text === null`, then `text.includes`
UnescapeCall(d, text) ==
  IF text.type = "null" THEN [threw |-> "HL7FatalError", value |-> <<>>]
  ELSE IF text.type = "undefined" THEN [threw |-> "TypeError", value |-> <<>>]
  ELSE [threw |-> NoThrow, value |-> Unescape(d, text.chars)]

JsValues(d) == {JsNull, JsUndefined} \cup {JsString(str) : str \in Texts(d)}

NotCalled == [threw |-> "", value |-> <<>>]

InitValues ==
  /\ Constructed({[waitAck |-> FALSE, handler |-> FALSE, connectionTimeout |-> 0,
                   maxConnections |-> 1]})
  /\ \E d \in DelimiterSets : arg \in [text : JsValues(d), delimiters : {d}]
  /\ ret = [pc |-> "escape", escape |-> NotCalled, unescape |-> NotCalled]

CallEscapeValue ==
  /\ ret.pc = "escape"
  /\ ret' = [ret EXCEPT !.pc = "unescape",
                        !.escape = EscapeCall(arg.delimiters, arg.text)]
  /\ UNCHANGED <<chanVars, arg>>

CallUnescapeValue ==
  /\ ret.pc = "unescape"
  /\ ret' = [ret EXCEPT !.pc = "done",
                        !.unescape = UnescapeCall(arg.delimiters, arg.text)]
  /\ UNCHANGED <<chanVars, arg>>

NextValues == CallEscapeValue \/ CallUnescapeValue

SpecValues == InitValues /\ [][NextValues]_vars

\* C12: escape and unescape called with missing input (null or undefined) both
\* fail with HL7FatalError and produce no result.
C12_MissingInputFatal ==
  (ret.pc = "done" /\ arg.text.type \in {"null", "undefined"})
    => /\ ret.escape.threw = "HL7FatalError"
       /\ ret.unescape.threw = "HL7FatalError"

(***************************************************************************)
(* The segment splitter: split of every text of up to MaxPieces pieces.    *)
(***************************************************************************)
MaxPieces == 4

\* what a text is made of: control segment names with and without the field
\* separator, the field separator, the terminators, other text
Pieces ==
  { <<"M", "S", "H", "|">>, <<"B", "H", "S", "|">>, <<"M", "S", "H">>,
    <<"|">>, <<"CR">>, <<"LF">>, <<"A">> }

RECURSIVE Flatten(_)
Flatten(ps) == IF ps = <<>> THEN <<>> ELSE Head(ps) \o Flatten(Tail(ps))

SplitInputs == {Flatten(ps) : ps \in UNION {[1..n -> Pieces] : n \in 0..MaxPieces}}

InitSplit ==
  /\ Constructed({[waitAck |-> FALSE, handler |-> FALSE, connectionTimeout |-> 0,
                   maxConnections |-> 1]})
  /\ arg \in SplitInputs
  /\ ret = [pc |-> "split", segments |-> <<>>, indexes |-> <<>>]

CallSplit ==
  /\ ret.pc = "split"
  /\ ret' = [pc |-> "done", segments |-> Split(arg),
             indexes |-> GetSegIndexes(SegmentNames, arg, <<>>)]
  /\ UNCHANGED <<chanVars, arg>>

NextSplit == CallSplit

SpecSplit == InitSplit /\ [][NextSplit]_vars

\* a boundary: a control segment name followed by the field separator
BoundaryAt(data, p) ==
  \E k \in 1..Len(SegmentNames) : OccursAt(data, SegmentNames[k] \o <<"|">>, p)

\* C9 as stated: for every input text the segments, in order, cover the entire
\* input: their concatenation equals the input.
C9_SegmentsCoverInput ==
  ret.pc = "done" => Flatten(ret.segments) = arg

\* C9 as amended: the segments are not empty, each begins at a boundary, and in
\* order they cover the input from its first boundary to its end with no gap
\* and no overlap (their concatenation is that suffix); with no boundary in the
\* input there is no segment.  They cover the entire input exactly when the
\* input begins with a boundary.
C9_SegmentsCoverFromFirstBoundary ==
  ret.pc = "done" =>
    LET joined == Flatten(ret.segments)
        first == Len(arg) - Len(joined)
    IN  /\ joined = Slice(arg, first, Len(arg))
        /\ \A i \in 1..Len(ret.segments) : BoundaryAt(ret.segments[i], 0)
        /\ \A p \in 0..(first - 1) : ~BoundaryAt(arg, p)
        /\ (joined = arg) <=> (arg = <<>> \/ BoundaryAt(arg, 0))

\* a split into two segments of a text that begins with a terminator
C9_Witness ==
  /\ ret.pc = "done"
  /\ Len(ret.segments) = 2
  /\ arg # <<>>
  /\ arg[1] = "CR"
  /\ Flatten(ret.segments) = Slice(arg, 1, Len(arg))

\* the segment terminators
Terminators == {"CR", "LF"}

\* C18: the offsets _getSegIndexes records are exactly the offsets of the
\* control segment names that are followed by the field separator and stand at
\* the very start of the text or right after a terminator (CR, LF, CR LF): an
\* occurrence preceded by any other character gives no offset, and every offset
\* is that of the first character of a name.
C18_BoundaryOnlyAfterTerminator ==
  ret.pc = "done" =>
    LET offsets == {ParseInt(ret.indexes[k]) : k \in 1..Len(ret.indexes)}
    IN  /\ \A p \in offsets :
              /\ BoundaryAt(arg, p)
              /\ (p = 0 \/ At(arg, p - 1) \in Terminators)
        /\ \A p \in 0..Len(arg) :
              (BoundaryAt(arg, p) /\ (p = 0 \/ At(arg, p - 1) \in Terminators))
                => p \in offsets

(***************************************************************************)
(* The frame-extraction loop of the data listener (465-489), one step per  *)
(* iteration, on every receive buffer of up to MaxBufLen characters.       *)
(***************************************************************************)
MaxBufLen == 4

\* the characters of a receive buffer: the start marker, the two characters of
\* the end marker, and payload
BufferChars == {"VT", "FS", "CR", "A"}

Buffers == UNION {[1..n -> BufferChars] : n \in 0..MaxBufLen}

\* an iteration that cuts the buffer one character earlier (indexOfFSCR + 1)
LoopStepCutsEarly(buf) ==
  LET indexOfVT == IndexOf(buf, PROTOCOL_MLLP_HEADER)
      indexOfFSCR == IndexOf(buf, PROTOCOL_MLLP_FOOTER)
      loaded0 == Substring(buf, indexOfVT, indexOfFSCR + 2)
      loaded1 == RemoveFirst(loaded0, PROTOCOL_MLLP_HEADER)
  IN  [buf |-> Slice(buf, indexOfFSCR + 1, Len(buf)),
       frame |-> Includes(loaded1, PROTOCOL_MLLP_FOOTER)]

\* one iteration of the loop (466-477) on a buffer that is not empty: the
\* buffer it leaves, and whether it extracted a frame (475)
LoopStep(buf) ==
  LET indexOfVT == IndexOf(buf, PROTOCOL_MLLP_HEADER)
      indexOfFSCR == IndexOf(buf, PROTOCOL_MLLP_FOOTER)
      loaded0 == Substring(buf, indexOfVT, indexOfFSCR + 2)
      loaded1 == RemoveFirst(loaded0, PROTOCOL_MLLP_HEADER)
  IN  [buf |-> Slice(buf, indexOfFSCR + 2, Len(buf)),
       frame |-> Includes(loaded1, PROTOCOL_MLLP_FOOTER)]

\* a channel with or without a handler, before its data listener runs
InitLoop ==
  /\ Constructed([waitAck : {FALSE}, handler : BOOLEAN, connectionTimeout : {0},
                  maxConnections : {1}])
  /\ arg = <<>>
  /\ ret = [pc |-> "start", buf |-> <<>>, n |-> 0]

\* the data listener reaches the loop's test (465) with `arg` in the receive
\* buffer
LoopEnter ==
  /\ ret.pc = "start"
  /\ arg' \in Buffers
  /\ ret' = [pc |-> "test", buf |-> arg', n |-> 0]
  /\ UNCHANGED chanVars

\* the test holds (465): one iteration, up to the handler call (486) when a
\* frame was extracted and there is a handler, else back to the test
LoopIterate ==
  /\ ret.pc = "test"
  /\ ret.buf # <<>>
  /\ LET r == LoopStep(ret.buf)
     IN  ret' = [pc |-> IF r.frame /\ CountsFrame(opt.handler) THEN "handler" ELSE "test",
                 buf |-> r.buf,
                 n |-> ret.n + 1]
  /\ UNCHANGED <<chanVars, arg>>

\* the caller's handler returns (486): back to the test
LoopHandlerReturn ==
  /\ ret.pc = "handler"
  /\ ret' = [ret EXCEPT !.pc = "test"]
  /\ UNCHANGED <<chanVars, arg>>

\* the test fails (465): the loop ends
LoopExit ==
  /\ ret.pc = "test"
  /\ ret.buf = <<>>
  /\ ret' = [ret EXCEPT !.pc = "done"]
  /\ UNCHANGED <<chanVars, arg>>

NextLoop == LoopEnter \/ LoopIterate \/ LoopHandlerReturn \/ LoopExit

\* a step of the listener from the loop's test: a step that leaves the test for
\* the next iteration or for the loop's end
LoopRuns ==
  /\ ret.pc = "test"
  /\ ret' \in [pc : {"test", "handler", "done"}, buf : Buffers, n : {ret.n, ret.n + 1}]
  /\ UNCHANGED <<chanVars, arg>>

\* the listener runs on (a step from the test is taken), and the caller's
\* handler returns
SpecLoop ==
  /\ InitLoop /\ [][NextLoop]_vars
  /\ WF_vars(LoopRuns)
  /\ WF_vars(LoopHandlerReturn)

\* C21: for every content of the receive buffer the loop terminates: each
\* iteration leaves the buffer strictly shorter, and from its test the loop
\* reaches its end, with the buffer empty.
C21_LoopTerminates ==
  /\ [][(ret.pc = "test" /\ ret.buf # <<>>) => (Len(ret'.buf) < Len(ret.buf))]_vars
  /\ (ret.pc = "test") ~> (ret.pc = "done" /\ ret.buf = <<>>)

\* the loop has ended on a buffer of full length that held an end marker before
\* its start marker, after more than one iteration
C21_Witness ==
  /\ ret.pc = "done"
  /\ ret.buf = <<>>
  /\ Len(arg) = MaxBufLen
  /\ IndexOf(arg, PROTOCOL_MLLP_FOOTER) # -1
  /\ IndexOf(arg, PROTOCOL_MLLP_HEADER) > IndexOf(arg, PROTOCOL_MLLP_FOOTER)
  /\ ret.n >= 2

(***************************************************************************)
(* The pool's ceiling: _manageConnections on every pool of up to MaxPool   *)
(* sockets with lastUsed values up to MaxLastUsed, for every ceiling.      *)
(***************************************************************************)
MaxPool == 3
MaxLastUsed == 3

\* a pool of n open sockets, socket k stored under node id k, k-th inserted
PoolOf(n) == [k \in 1..n |-> [nodeID |-> k, socket |-> k]]

InitPool ==
  /\ Constructed([waitAck : {FALSE}, handler : {FALSE}, connectionTimeout : {0},
                  maxConnections : 0..MaxPool])
  /\ \E n \in 0..MaxPool :
       /\ arg \in [sockets : {PoolOf(n)},
                   sock : [1..n -> [st : {"open"}, msg : {0},
                                    lastUsed : 1..MaxLastUsed, callState : {""},
                                    promise : {""}, failed : {FALSE}]]]
  /\ ret = [pc |-> "manage", sockets |-> <<>>, sock |-> <<>>]

CallManageConnections ==
  /\ ret.pc = "manage"
  /\ LET r == ManageConnections(arg.sockets, arg.sock, opt.maxConnections)
     IN  ret' = [pc |-> "done", sockets |-> r.sockets, sock |-> r.sock]
  /\ UNCHANGED <<chanVars, arg>>

NextPool == CallManageConnections

SpecPool == InitPool /\ [][NextPool]_vars

\* the node ids of a pool
PoolIds(pool) == {pool[k].nodeID : k \in 1..Len(pool)}

\* C10: on a pool of n entries with ceiling maxConnections < n,
\* _manageConnections removes and destroys exactly min(n - maxConnections, n - 1)
\* entries, none of them used later than an entry it leaves; every other entry
\* stays in the pool, in its place and not destroyed; at least one entry remains.
C10_CeilingEvictsOldest ==
  (ret.pc = "done" /\ opt.maxConnections < Len(arg.sockets)) =>
    LET n == Len(arg.sockets)
        removed == PoolIds(arg.sockets) \ PoolIds(ret.sockets)
        kept == PoolIds(ret.sockets)
    IN  /\ Cardinality(removed) = Min(n - opt.maxConnections, n - 1)
        /\ kept \subseteq PoolIds(arg.sockets)
        /\ Len(ret.sockets) = Cardinality(kept)
        /\ Len(ret.sockets) >= 1
        /\ \A r \in removed : ret.sock[r].st = "destroyed"
        /\ \A r \in removed, k \in kept :
             arg.sock[r].lastUsed <= arg.sock[k].lastUsed
        /\ \A k \in kept : ret.sock[k] = arg.sock[k]
        /\ ret.sockets = SelectSeq(arg.sockets, LAMBDA e : e.nodeID \in kept)

\* the pool A(lastUsed = 1), B(2), C(3) with maxConnections = 2 is left as {B, C}
C10_Witness ==
  /\ ret.pc = "done"
  /\ opt.maxConnections = 2
  /\ Len(arg.sockets) = 3
  /\ \A k \in 1..3 : arg.sock[k].lastUsed = k
  /\ PoolIds(ret.sockets) = {2, 3}
  /\ ret.sock[1].st = "destroyed"

====
